---- MODULE Spec2Model ----
(***************************************************************************)
(* Model of company_performance.py: the loader read_csv_safe, the return   *)
(* calculator compute_return, the ranker process_all, the aggregator       *)
(* aggregrate_by_sector, print_report, export_csv and the main flow.       *)
(*                                                                         *)
(* Text is a sequence of one-character strings.  A float is an exact       *)
(* decimal [m |-> mantissa, e |-> number of fraction digits], normalised   *)
(* (no trailing fraction zero), so float() and the csv writer's str() are  *)
(* modelled digit by digit.  Values stay in the range where Python prints  *)
(* a float in positional notation.                                         *)
(***************************************************************************)
EXTENDS Integers, Sequences, FiniteSets, TLC

\* ------------------------------------------------------------------ bounds
MaxRows == 3

\* ------------------------------------------------------- program constants
Places == 2
TopN == 5
Percent == 100

\* -------------------------------------------------------------------- text
Whitespace == {" ", "\t"}

RECURSIVE LStrip(_)
LStrip(s) ==
    IF s # <<>> /\ Head(s) \in Whitespace THEN LStrip(Tail(s)) ELSE s

RECURSIVE RStrip(_)
RStrip(s) ==
    IF s # <<>> /\ s[Len(s)] \in Whitespace
    THEN RStrip(SubSeq(s, 1, Len(s) - 1))
    ELSE s

\* str.strip()
Strip(s) == RStrip(LStrip(s))

DigitChars == <<"0", "1", "2", "3", "4", "5", "6", "7", "8", "9">>

IsDigit(c) == \E i \in 1..10 : DigitChars[i] = c

DigitVal(c) == (CHOOSE i \in 1..10 : DigitChars[i] = c) - 1

RECURSIVE Pow10(_)
Pow10(n) == IF n = 0 THEN 1 ELSE 10 * Pow10(n - 1)

Abs(x) == IF x < 0 THEN -x ELSE x

\* ---------------------------------------------------------------- decimals
RECURSIVE Normalize(_)
Normalize(d) ==
    IF d.e > 0 /\ d.m % 10 = 0
    THEN Normalize([m |-> d.m \div 10, e |-> d.e - 1])
    ELSE d

Dec(m, e) == Normalize([m |-> m, e |-> e])

Zero == Dec(0, 0)

\* the value of d in units of 10^-e, for e >= d.e
Scaled(d, e) == d.m * Pow10(e - d.e)

MaxOf(a, b) == IF a >= b THEN a ELSE b

DecLess(a, b) == Scaled(a, MaxOf(a.e, b.e)) < Scaled(b, MaxOf(a.e, b.e))

DecAdd(a, b) ==
    Dec(Scaled(a, MaxOf(a.e, b.e)) + Scaled(b, MaxOf(a.e, b.e)), MaxOf(a.e, b.e))

\* a faulty variant of Nearest: the quotient is cut off instead of rounded
NearestTruncated(q, r, d) == q

\* quotient q with remainder r of a division by d, to the nearest integer,
\* ties to the even one
Nearest(q, r, d) ==
    IF 2 * r < d THEN q
    ELSE IF 2 * r > d THEN q + 1
    ELSE IF q % 2 = 0 THEN q ELSE q + 1

\* n / d rounded as round() rounds (d > 0)
RoundHalfEven(n, d) == Nearest(n \div d, n % d, d)

\* ------------------------------------------------------------------ float()
RECURSIVE DigitsValue(_, _)
DigitsValue(s, acc) ==
    IF s = <<>> THEN acc ELSE DigitsValue(Tail(s), 10 * acc + DigitVal(Head(s)))

DotAt(s) == IF \E i \in 1..Len(s) : s[i] = "."
            THEN CHOOSE i \in 1..Len(s) : s[i] = "."
            ELSE 0

AllDigits(s) == \A i \in 1..Len(s) : IsDigit(s[i])

NotAFloat == [ok |-> FALSE, val |-> Zero]

\* the digits before and after the point
ParseParts(neg, ip, fp) ==
    IF ~(AllDigits(ip) /\ AllDigits(fp)) THEN NotAFloat
    ELSE IF Len(ip) + Len(fp) = 0 THEN NotAFloat
    ELSE [ok  |-> TRUE,
          val |-> Dec((IF neg THEN -1 ELSE 1) * DigitsValue(ip \o fp, 0), Len(fp))]

ParseUnsigned(neg, body, dot) ==
    IF dot = 0 THEN ParseParts(neg, body, <<>>)
    ELSE ParseParts(neg, SubSeq(body, 1, dot - 1), SubSeq(body, dot + 1, Len(body)))

ParseSigned(t) ==
    IF t # <<>> /\ Head(t) \in {"-", "+"}
    THEN ParseUnsigned(Head(t) = "-", Tail(t), DotAt(Tail(t)))
    ELSE ParseUnsigned(FALSE, t, DotAt(t))

\* float(text): [ok |-> TRUE, val |-> decimal] or [ok |-> FALSE] (ValueError)
ParseFloat(text) == ParseSigned(Strip(text))

\* ------------------------------------------------------------- str(float)
RECURSIVE Digits(_)
Digits(n) ==
    IF n < 10 THEN <<DigitChars[n + 1]>>
    ELSE Digits(n \div 10) \o <<DigitChars[(n % 10) + 1]>>

RECURSIVE PadLeft(_, _)
PadLeft(s, n) == IF Len(s) >= n THEN s ELSE PadLeft(<<"0">> \o s, n)

\* a faulty variant of FormatParts: the float is written as a whole number
FormatPartsWhole(neg, a, p, e) ==
    (IF neg THEN <<"-">> ELSE <<>>) \o Digits(a \div p)

FormatParts(neg, a, p, e) ==
    (IF neg THEN <<"-">> ELSE <<>>)
    \o Digits(a \div p) \o <<".">>
    \o (IF e = 0 THEN <<"0">> ELSE PadLeft(Digits(a % p), e))

FormatFloat(d) == FormatParts(d.m < 0, Abs(d.m), Pow10(d.e), d.e)

\* -------------------------------------------------------------- exceptions
\* the classes an except clause naming cls catches
Subclasses(cls) ==
    IF cls = "OSError"
    THEN {"OSError", "FileNotFoundError", "PermissionError", "IsADirectoryError"}
    ELSE IF cls = "ValueError" THEN {"ValueError", "UnicodeDecodeError"}
    ELSE {cls}

Catches(clause, exc) == \E cls \in clause : exc \in Subclasses(cls)

\* except (ValueError, KeyError) around one row
RowExcept == {"ValueError", "KeyError"}

\* except FileNotFoundError around the whole load
LoadExcept == {"FileNotFoundError"}

\* what open(filename, 'r') raises for each state of the path
OpenError(status) ==
    IF status = "NotFound" THEN "FileNotFoundError"
    ELSE IF status = "Denied" THEN "PermissionError"
    ELSE IF status = "IsDir" THEN "IsADirectoryError"
    ELSE "OSError"

\* -------------------------------------------------------------- DictReader
Some(s) == [isNone |-> FALSE, s |-> s]
None == [isNone |-> TRUE, s |-> <<>>]

Names(header) == {header[i] : i \in 1..Len(header)}

ColumnOf(header, k) == CHOOSE i \in 1..Len(header) : header[i] = k

\* the dict DictReader yields for one row: a value for every field name,
\* None (restval) where the row is shorter than the header; cells beyond
\* the header go under the key None and are not read
DictRow(header, cells) ==
    [k \in Names(header) |->
        IF ColumnOf(header, k) <= Len(cells)
        THEN Some(cells[ColumnOf(header, k)])
        ELSE None]

\* `not x` for a cell: None and '' are falsy
Falsy(v) == v.isNone \/ v.s = <<>>

NoRecord ==
    [Stock |-> <<>>, Sector |-> <<>>, PriceStart |-> Zero, PriceEnd |-> Zero]

Outcome(kind, exc, rec) == [kind |-> kind, exc |-> exc, rec |-> rec]

Raise(exc) == Outcome("raise", exc, NoRecord)

\* a faulty variant of Positive: a zero start price is let through
PositiveOrZeroStart(start, end) == start.m >= 0 /\ end.m > 0

\* `start_price > 0 and end_price > 0`
Positive(start, end) == start.m > 0 /\ end.m > 0

\* the two float() calls and the check of the prices
Priced(name, sector, start, end) ==
    IF ~start.ok \/ ~end.ok THEN Raise("ValueError")
    ELSE IF Positive(start.val, end.val)
    THEN Outcome("append", "none",
                 [Stock      |-> name,
                  Sector     |-> sector,
                  PriceStart |-> start.val,
                  PriceEnd   |-> end.val])
    ELSE Outcome("reject", "none", NoRecord)

\* the body of the inner try for one row, before any except clause
RowBody(row) ==
    IF "Stock" \notin DOMAIN row THEN Raise("KeyError")
    ELSE IF row["Stock"].isNone THEN Raise("AttributeError")
    ELSE IF "Sector" \notin DOMAIN row THEN Raise("KeyError")
    ELSE IF row["Sector"].isNone THEN Raise("AttributeError")
    ELSE IF "PriceStart" \notin DOMAIN row THEN Raise("KeyError")
    ELSE IF "PriceEnd" \notin DOMAIN row THEN Raise("KeyError")
    ELSE IF Falsy(row["PriceStart"]) \/ Falsy(row["PriceEnd"])
         THEN Outcome("missing", "none", NoRecord)
    ELSE Priced(Strip(row["Stock"].s), Strip(row["Sector"].s),
                ParseFloat(row["PriceStart"].s), ParseFloat(row["PriceEnd"].s))

Line(msg, ref) == [msg |-> msg, ref |-> ref]

Returned(stocks, out) ==
    [status |-> "return", exc |-> "none", stocks |-> stocks, out |-> out]

Raised(exc, stocks, out) ==
    [status |-> "raise", exc |-> exc, stocks |-> stocks, out |-> out]

\* one pass of the for loop: r is the load so far, o the row's outcome
RowStep(r, cells, o) ==
    IF o.kind = "append" THEN Returned(Append(r.stocks, o.rec), r.out)
    ELSE IF o.kind = "missing"
    THEN Returned(r.stocks,
                  Append(r.out, Line("Skipping row due to missing prices:", cells)))
    ELSE IF o.kind = "reject" THEN r
    ELSE IF Catches(RowExcept, o.exc)
    THEN Returned(r.stocks, Append(r.out, Line("Skipping invalid row:", cells)))
    ELSE Raised(o.exc, r.stocks, r.out)

\* the for loop over the reader, from row i on; DictReader passes over
\* empty rows, and an exception the row's except clause does not catch
\* leaves the loop
RECURSIVE ReadRows(_, _, _, _)
ReadRows(header, rows, i, r) ==
    IF i > Len(rows) \/ r.status = "raise" THEN r
    ELSE ReadRows(header, rows, i + 1,
                  IF rows[i] = <<>> THEN r
                  ELSE RowStep(r, rows[i], RowBody(DictRow(header, rows[i]))))

\* the except clause of the outer try, then `return stocks`
AfterLoad(filename, r) ==
    IF r.status = "raise" /\ Catches(LoadExcept, r.exc)
    THEN Returned(r.stocks, Append(r.out, Line("File not found:", filename)))
    ELSE r

\* read_csv_safe(filename) on a path in state src
ReadCsvSafe(filename, src) ==
    AfterLoad(filename,
              IF src.status = "Readable"
              THEN ReadRows(src.header, src.rows, 1, Returned(<<>>, <<>>))
              ELSE Raised(OpenError(src.status), <<>>, <<>>))

\* ---------------------------------------------------------- compute_return
\* ((end - start) / start) * 100, rounded to Places decimals; start # 0
Change(a, b) == Dec(RoundHalfEven((a - b) * Percent * Pow10(Places), b), Places)

ReturnOf(start, end) ==
    Change(Scaled(end, MaxOf(start.e, end.e)), Scaled(start, MaxOf(start.e, end.e)))

WithReturn(stock, ret) ==
    [Stock      |-> stock.Stock,
     Sector     |-> stock.Sector,
     PriceStart |-> stock.PriceStart,
     PriceEnd   |-> stock.PriceEnd,
     Return     |-> ret]

compute_return(stock) ==
    WithReturn(stock, ReturnOf(stock.PriceStart, stock.PriceEnd))

\* the division in compute_return raises for a zero start price
DividesByZero(stock) == stock.PriceStart.m = 0

\* ------------------------------------------------------------- process_all
\* sorted(..., reverse=True) keeps equal keys in their input order
RECURSIVE InsertDesc(_, _)
InsertDesc(x, s) ==
    IF s = <<>> THEN <<x>>
    ELSE IF DecLess(Head(s).Return, x.Return) THEN <<x>> \o s
    ELSE <<Head(s)>> \o InsertDesc(x, Tail(s))

RECURSIVE SortFrom(_, _, _)
SortFrom(data, i, acc) ==
    IF i > Len(data) THEN acc ELSE SortFrom(data, i + 1, InsertDesc(data[i], acc))

Reversed(s) == [i \in 1..Len(s) |-> s[Len(s) + 1 - i]]

\* a faulty variant of process_all: the sort is ascending
process_all_ascending(data) == Reversed(SortFrom(data, 1, <<>>))

process_all(data) == SortFrom(data, 1, <<>>)

\* ---------------------------------------------------- aggregrate_by_sector
UpperChars == <<"A", "B", "C", "D", "E", "F", "G", "H", "I", "J", "K", "L", "M",
               "N", "O", "P", "Q", "R", "S", "T", "U", "V", "W", "X", "Y", "Z">>
LowerChars == <<"a", "b", "c", "d", "e", "f", "g", "h", "i", "j", "k", "l", "m",
               "n", "o", "p", "q", "r", "s", "t", "u", "v", "w", "x", "y", "z">>

LowerChar(c) ==
    IF \E i \in 1..Len(UpperChars) : UpperChars[i] = c
    THEN LowerChars[CHOOSE i \in 1..Len(UpperChars) : UpperChars[i] = c]
    ELSE c

\* a faulty variant of SectorKey: categories are keyed without regard to case
SectorKeyLowered(s) == [i \in 1..Len(s.Sector) |-> LowerChar(s.Sector[i])]

\* the dict key of a record
SectorKey(s) == s.Sector

IndexOf(summary, sector) ==
    IF \E i \in 1..Len(summary) : summary[i].sector = sector
    THEN CHOOSE i \in 1..Len(summary) : summary[i].sector = sector
    ELSE 0

\* `if sector not in summary: summary[sector] = {'total': 0, 'count': 0}`
Entered(summary, sector) ==
    IF IndexOf(summary, sector) = 0
    THEN Append(summary, [sector |-> sector, total |-> Zero, count |-> 0])
    ELSE summary

\* the two += on the entry at i
Added(summary, i, ret) ==
    [summary EXCEPT ![i] = [sector |-> summary[i].sector,
                            total  |-> DecAdd(summary[i].total, ret),
                            count  |-> summary[i].count + 1]]

\* one iteration of the first loop; summary is the dict in insertion order
Fold(summary, s) ==
    Added(Entered(summary, SectorKey(s)),
          IndexOf(Entered(summary, SectorKey(s)), SectorKey(s)), s.Return)

RECURSIVE FoldFrom(_, _, _)
FoldFrom(data, i, summary) ==
    IF i > Len(data) THEN summary
    ELSE FoldFrom(data, i + 1, Fold(summary, data[i]))

\* round(total / count, 2)
AverageOf(total, count) ==
    Dec(RoundHalfEven(total.m * Pow10(Places), count * Pow10(total.e)), Places)

Finalize(entry) ==
    [sector     |-> entry.sector,
     total      |-> entry.total,
     count      |-> entry.count,
     avg_return |-> AverageOf(entry.total, entry.count)]

FinalizeAll(summary) == [i \in 1..Len(summary) |-> Finalize(summary[i])]

aggregrate_by_sector(data) == FinalizeAll(FoldFrom(data, 1, <<>>))

\* ------------------------------------------------------------ print_report
\* a faulty variant of Better: an equal item replaces the current best
BetterOrEqual(next, best) == ~DecLess(next.avg_return, best.avg_return)

\* whether max() replaces its current best by the next item
Better(next, best) == DecLess(best.avg_return, next.avg_return)

RECURSIVE MaxFrom(_, _, _)
MaxFrom(summary, i, best) ==
    IF i > Len(summary) THEN best
    ELSE MaxFrom(summary, i + 1, IF Better(summary[i], summary[best]) THEN i ELSE best)

\* max(summary.items(), key=avg_return): the index of the item it returns
BestOf(summary) == MaxFrom(summary, 2, 1)

MinOf(a, b) == IF a <= b THEN a ELSE b

TableLines(data) ==
    <<Line("All Stock Details", <<>>)>>
    \o [i \in 1..Len(data) |-> Line("row", data[i])]

TopLines(data) ==
    <<Line("Top 5 Stocks by Return", <<>>)>>
    \o [i \in 1..MinOf(TopN, Len(data)) |->
            Line("top", <<data[i].Stock, data[i].Return>>)]

SectorLines(summary) ==
    [i \in 1..Len(summary) |->
        Line("sector", <<summary[i].sector, summary[i].avg_return, summary[i].count>>)]

BestLine(best) == Line("Best Sector:", <<best.sector, best.avg_return>>)

\* print_report(data, summary): the lines printed and how it ends; max() of
\* an empty summary raises ValueError after the two tables are printed
print_report(data, summary) ==
    IF summary = <<>>
    THEN [status |-> "raise", exc |-> "ValueError",
          out |-> TableLines(data) \o TopLines(data)
                  \o <<Line("Sector Summary", <<>>)>>]
    ELSE [status |-> "return", exc |-> "none",
          out |-> TableLines(data) \o TopLines(data)
                  \o <<Line("Sector Summary", <<>>)>>
                  \o SectorLines(summary)
                  \o <<BestLine(summary[BestOf(summary)])>>]

\* -------------------------------------------------------------- export_csv
\* a faulty variant of ExportExcept: the clause of the loader
ExportExceptNotFound == {"FileNotFoundError"}

\* except OSError around the write
ExportExcept == {"OSError"}

Fields == <<"Stock", "Sector", "PriceStart", "PriceEnd", "Return">>

\* one row as DictWriter writes it: text as is, floats through str()
WriteRow(s) ==
    <<s.Stock, s.Sector, FormatFloat(s.PriceStart), FormatFloat(s.PriceEnd),
      FormatFloat(s.Return)>>

ReportName(timestamp) == <<"stock_report_", timestamp, ".csv">>

NoFile == [status |-> "NotFound", header |-> <<>>, rows |-> <<>>]

\* what writing the destination raises for each state of it
WriteError(dest) ==
    IF dest = "Denied" THEN "PermissionError"
    ELSE IF dest = "NoDir" THEN "FileNotFoundError"
    ELSE IF dest = "DiskFull" THEN "OSError"
    ELSE "none"

Written(data) ==
    [status |-> "Readable", header |-> Fields,
     rows |-> [i \in 1..Len(data) |-> WriteRow(data[i])]]

\* what a failed write leaves: a disk that fills up leaves the file created
LeftBy(dest) ==
    IF dest = "DiskFull"
    THEN [status |-> "Readable", header |-> Fields, rows |-> <<>>]
    ELSE NoFile

ExportResult(data, filename, dest, err) ==
    IF err = "none"
    THEN [status |-> "return", exc |-> "none", file |-> Written(data),
          out |-> <<Line("Data saved to", filename)>>]
    ELSE IF Catches(ExportExcept, err)
    THEN [status |-> "return", exc |-> "none", file |-> LeftBy(dest),
          out |-> <<Line("Error saving to file:", filename)>>]
    ELSE [status |-> "raise", exc |-> err, file |-> LeftBy(dest), out |-> <<>>]

\* export_csv(data) at time timestamp with the destination in state dest
export_csv(data, timestamp, dest) ==
    ExportResult(data, ReportName(timestamp), dest, WriteError(dest))

\* ------------------------------------------------------------------ inputs
sTech == <<"T", "e", "c", "h">>
sTechLower == <<"t", "e", "c", "h">>
sHealth == <<"H", "e", "a", "l", "t", "h">>

FullHeader == <<"Stock", "Sector", "PriceStart", "PriceEnd">>
NoStockHeader == <<"Sector", "PriceStart", "PriceEnd">>
PricesFirstHeader == <<"PriceStart", "PriceEnd", "Stock", "Sector">>

\* data rows under FullHeader
RowPool ==
    { <<<<"A", "A", "A">>, sTech, <<"1", "0", "0">>, <<"1", "1", "0">>>>,
      <<<<"B", "B", "B">>, sHealth, <<"5", "0">>, <<"4", "5">>>>,
      <<<<"C", "C", "C">>, sTech, <<>>, <<"8", "0">>>>,
      <<<<"D", "D", "D">>, sTechLower, <<"0">>, <<"5", "0">>>>,
      <<<<"E", "E", "E">>, sTech, <<"a", "b", "c">>, <<"5">>>>,
      <<<<"F", "F", "F">>>>,
      <<<<"G", "G", "G">>, sTech, <<"1", "0", "0">>>>,
      <<<<" ", "H", "H", " ">>, sHealth, <<" ", "3", " ">>, <<"5">>>>,
      <<<<"I", "I", "I">>, sTechLower, <<"5", "0">>, <<"5", "5">>>>,
      <<<<"J", "J", "J">>, sHealth, <<"-", "5">>, <<"1", "0">>>>,
      <<<<"K", "K", "K">>, sTech, <<"3", ".", "2">>, <<"3", ".", "3">>>>,
      <<>> }

\* data rows under NoStockHeader
NoStockPool ==
    { <<sTech, <<"1", "0", "0">>, <<"1", "1", "0">>>>,
      <<sHealth, <<"x">>, <<"4", "5">>>> }

\* data rows under PricesFirstHeader
PricesFirstPool ==
    { <<<<"1", "0", "0">>, <<"1", "1", "0">>, <<"A", "A", "A">>, sTech>>,
      <<<<"5", "0">>, <<"4", "5">>>> }

RowsOver(pool) == UNION {[1..n -> pool] : n \in 0..MaxRows}

Readable(header, rows) == [status |-> "Readable", header |-> header, rows |-> rows]

Unreadable == {"NotFound", "Denied", "IsDir", "IOError"}

Sources ==
    {[status |-> st, header |-> <<>>, rows |-> <<>>] : st \in Unreadable}
    \cup {Readable(<<>>, <<>>)}
    \cup {Readable(FullHeader, rows) : rows \in RowsOver(RowPool)}
    \cup {Readable(NoStockHeader, rows) : rows \in RowsOver(NoStockPool)}
    \cup {Readable(PricesFirstHeader, rows) : rows \in RowsOver(PricesFirstPool)}

FileNames == {"stocks.csv"}

Timestamps == {"20240101_120000", "20240101_120001"}

Destinations == {"Writable", "Denied", "NoDir", "DiskFull"}

\* --------------------------------------------------------------- main flow
VARIABLES
    pc,        \* where the script is
    filename,  \* the name entered at the prompt
    source,    \* the state of that path
    data,      \* the script's data
    summary,   \* the script's summary
    out,       \* the lines printed so far
    exc,       \* the exception that ended the process, or "none"
    calls,     \* the functions called so far, in order
    exported,  \* the file export_csv left
    loaded,    \* what read_csv_safe returned
    computed,  \* data as it entered process_all
    reloaded   \* what read_csv_safe returns for the exported file

vars == <<pc, filename, source, data, summary, out, exc, calls, exported,
          loaded, computed, reloaded>>

NoLoad == Returned(<<>>, <<>>)

Init ==
    /\ pc = "start"
    /\ filename \in FileNames
    /\ source \in Sources
    /\ data = <<>>
    /\ summary = <<>>
    /\ out = <<>>
    /\ exc = "none"
    /\ calls = <<>>
    /\ exported = NoFile
    /\ loaded = <<>>
    /\ computed = <<>>
    /\ reloaded = NoLoad

\* a faulty variant of NoData: the empty check never fires
NoDataNever(d) == FALSE

\* `if not data`
NoData(d) == d = <<>>

\* data = read_csv_safe(filename)
Loaded(r) ==
    /\ out' = out \o r.out
    /\ calls' = Append(calls, "read_csv_safe")
    /\ IF r.status = "return"
       THEN /\ pc' = "loaded"
            /\ data' = r.stocks
            /\ loaded' = r.stocks
            /\ exc' = exc
       ELSE /\ pc' = "crashed"
            /\ exc' = r.exc
            /\ UNCHANGED <<data, loaded>>

Load ==
    /\ pc = "start"
    /\ Loaded(ReadCsvSafe(filename, source))
    /\ UNCHANGED <<filename, source, summary, exported, computed, reloaded>>

\* the empty check: print and exit()
ExitNoData ==
    /\ pc = "loaded"
    /\ NoData(data)
    /\ out' = Append(out, Line("No valid data found. Exiting program.", <<>>))
    /\ pc' = "exited"
    /\ UNCHANGED <<filename, source, data, summary, exc, calls, exported,
                   loaded, computed, reloaded>>

\* data = [compute_return(s) for s in data]
Compute ==
    /\ pc = "loaded"
    /\ ~NoData(data)
    /\ calls' = Append(calls, "compute_return")
    /\ IF \E i \in 1..Len(data) : DividesByZero(data[i])
       THEN /\ pc' = "crashed"
            /\ exc' = "ZeroDivisionError"
            /\ UNCHANGED <<data, computed>>
       ELSE /\ pc' = "computed"
            /\ data' = [i \in 1..Len(data) |-> compute_return(data[i])]
            /\ computed' = data'
            /\ exc' = exc
    /\ UNCHANGED <<filename, source, summary, out, exported, loaded, reloaded>>

\* data = process_all(data)
Rank ==
    /\ pc = "computed"
    /\ data' = process_all(data)
    /\ calls' = Append(calls, "process_all")
    /\ pc' = "ranked"
    /\ UNCHANGED <<filename, source, summary, out, exc, exported, loaded,
                   computed, reloaded>>

\* summary = aggregrate_by_sector(data)
Aggregate ==
    /\ pc = "ranked"
    /\ summary' = aggregrate_by_sector(data)
    /\ calls' = Append(calls, "aggregrate_by_sector")
    /\ pc' = "aggregated"
    /\ UNCHANGED <<filename, source, data, out, exc, exported, loaded,
                   computed, reloaded>>

\* print_report(data, summary)
Reported(r) ==
    /\ out' = out \o r.out
    /\ pc' = IF r.status = "return" THEN "reported" ELSE "crashed"
    /\ exc' = r.exc

Report ==
    /\ pc = "aggregated"
    /\ Reported(print_report(data, summary))
    /\ calls' = Append(calls, "print_report")
    /\ UNCHANGED <<filename, source, data, summary, exported, loaded,
                   computed, reloaded>>

\* export_csv(data), the last statement of the script
Exported(r) ==
    /\ out' = out \o r.out
    /\ exported' = r.file
    /\ pc' = IF r.status = "return" THEN "done" ELSE "crashed"
    /\ exc' = r.exc

Export ==
    /\ pc = "reported"
    /\ \E timestamp \in Timestamps, dest \in Destinations :
         Exported(export_csv(data, timestamp, dest))
    /\ calls' = Append(calls, "export_csv")
    /\ UNCHANGED <<filename, source, data, summary, loaded, computed, reloaded>>

\* the round trip: read_csv_safe on the file a finished run exported
Reload ==
    /\ pc = "done"
    /\ exported.status = "Readable"
    /\ reloaded' = ReadCsvSafe("stock_report.csv", exported)
    /\ pc' = "reloaded"
    /\ UNCHANGED <<filename, source, data, summary, out, exc, calls, exported,
                   loaded, computed>>

Next ==
    \/ Load
    \/ ExitNoData
    \/ Compute
    \/ Rank
    \/ Aggregate
    \/ Report
    \/ Export
    \/ Reload

Spec == Init /\ [][Next]_vars

\* ------------------------------------------------------------------ claims
\* read_csv_safe raised: the process ended inside the first call
LoaderRaised == pc = "crashed" /\ calls = <<"read_csv_safe">>

\* read_csv_safe returned
LoaderReturned == pc # "start" /\ ~LoaderRaised

HasValue(header, cells, k) ==
    k \in Names(header) /\ ColumnOf(header, k) <= Len(cells)

CellOf(header, cells, k) ==
    IF HasValue(header, cells, k) THEN cells[ColumnOf(header, k)] ELSE <<>>

IsPositiveNumber(text) ==
    text # <<>> /\ ParseFloat(text).ok /\ ParseFloat(text).val.m > 0

\* both prices are non-empty, parse as numbers and are greater than zero
PricesValid(header, cells) ==
    /\ IsPositiveNumber(CellOf(header, cells, "PriceStart"))
    /\ IsPositiveNumber(CellOf(header, cells, "PriceEnd"))

\* the row also has a value in the Stock and Sector columns
Admissible(header, cells) ==
    /\ HasValue(header, cells, "Stock")
    /\ HasValue(header, cells, "Sector")
    /\ PricesValid(header, cells)

AsRecord(header, cells) ==
    [Stock      |-> Strip(CellOf(header, cells, "Stock")),
     Sector     |-> Strip(CellOf(header, cells, "Sector")),
     PriceStart |-> ParseFloat(CellOf(header, cells, "PriceStart")).val,
     PriceEnd   |-> ParseFloat(CellOf(header, cells, "PriceEnd")).val]

RecordsOf(header, rows) == [i \in 1..Len(rows) |-> AsRecord(header, rows[i])]

RowsWithValidPrices(src) ==
    SelectSeq(src.rows, LAMBDA cells : PricesValid(src.header, cells))

AdmissibleRows(src) ==
    SelectSeq(src.rows, LAMBDA cells : Admissible(src.header, cells))

HasCalled(f) == \E i \in 1..Len(calls) : calls[i] = f

LastLine == out[Len(out)]

\* C1: whenever the source cannot be opened or read (not found, permission
\* denied, any other I/O failure), read_csv_safe lets nothing escape: it
\* prints a diagnostic naming the source and returns an empty sequence.
C1_SourceFailureAbsorbed ==
    (source.status # "Readable" /\ pc # "start")
        => /\ ~LoaderRaised
           /\ loaded = <<>>
           /\ out # <<>>
           /\ out[1].msg = "File not found:"
           /\ out[1].ref = filename

\* C2: every row-level defect (a column without a value for the row, an
\* empty price, a non-numeric price) only skips that row: the load is never
\* aborted and every valid row before and after it is returned.
C2_RowDefectsSkipped ==
    (source.status = "Readable" /\ pc # "start")
        => /\ ~LoaderRaised
           /\ loaded = RecordsOf(source.header, AdmissibleRows(source))

IsRoundedReturn(ret, start, end) ==
    LET e == MaxOf(start.e, end.e)
        a == Scaled(end, e)
        b == Scaled(start, e)
    IN  /\ ret.e <= Places
        /\ 2 * Abs(Scaled(ret, Places) * b - (a - b) * Percent * Pow10(Places)) <= b

\* C4: for every admitted record compute_return sets returnPct to
\* ((priceEnd - priceStart) / priceStart) * 100 rounded to 2 decimals, never
\* divides by zero, and leaves the other four fields unchanged.
C4_ReturnIsRoundedChange ==
    /\ exc # "ZeroDivisionError"
    /\ HasCalled("compute_return")
         => /\ Len(computed) = Len(loaded)
            /\ \A i \in 1..Len(computed) :
                 /\ computed[i].Stock = loaded[i].Stock
                 /\ computed[i].Sector = loaded[i].Sector
                 /\ computed[i].PriceStart = loaded[i].PriceStart
                 /\ computed[i].PriceEnd = loaded[i].PriceEnd
                 /\ loaded[i].PriceStart.m > 0
                 /\ IsRoundedReturn(computed[i].Return, loaded[i].PriceStart,
                                    loaded[i].PriceEnd)

\* a computed return that needed rounding up, and a negative one
C4_Witness ==
    /\ pc = "computed"
    /\ \E i \in 1..Len(computed) : computed[i].Return = Dec(6667, 2)
    /\ \E i \in 1..Len(computed) : computed[i].Return.m < 0

Perms(n) == {p \in [1..n -> 1..n] : \A i, j \in 1..n : i # j => p[i] # p[j]}

SameReturn(a, b) == ~DecLess(a.Return, b.Return) /\ ~DecLess(b.Return, a.Return)

\* C5: process_all returns a permutation of its input, of the same length,
\* sorted non-increasing by returnPct; records with equal returnPct come in
\* a fixed order, the one they had in the input; the empty sequence gives
\* the empty sequence.
C5_RankedIsSortedPermutation ==
    /\ process_all(<<>>) = <<>>
    /\ HasCalled("process_all")
         => /\ Len(data) = Len(computed)
            /\ \A i, j \in 1..Len(data) :
                 i < j => ~DecLess(data[i].Return, data[j].Return)
            /\ \E p \in Perms(Len(data)) :
                 /\ \A i \in 1..Len(data) : data[i] = computed[p[i]]
                 /\ \A i, j \in 1..Len(data) :
                      (i < j /\ SameReturn(data[i], data[j])) => p[i] < p[j]

\* a ranking that moved a record past two records of equal return
C5_Witness ==
    /\ pc = "ranked"
    /\ data # computed
    /\ \E i, j \in 1..Len(data) :
         i < j /\ SameReturn(data[i], data[j]) /\ data[i] # data[j]

RECURSIVE SumOfReturns(_, _, _)
SumOfReturns(d, sector, i) ==
    IF i > Len(d) THEN 0
    ELSE (IF d[i].Sector = sector THEN Scaled(d[i].Return, Places) ELSE 0)
         + SumOfReturns(d, sector, i + 1)

RECURSIVE SumOfCounts(_, _)
SumOfCounts(sm, i) ==
    IF i > Len(sm) THEN 0 ELSE sm[i].count + SumOfCounts(sm, i + 1)

\* C6: the keys of the aggregation are exactly the categories of the input,
\* compared as exact text; for each key count is the number of its records
\* (at least 1, summing to the input length), totalReturn the sum of their
\* returnPct, and averageReturn is totalReturn / count rounded to 2 decimals.
C6_AggregationIsPerSector ==
    HasCalled("aggregrate_by_sector")
        => /\ {summary[i].sector : i \in 1..Len(summary)}
                = {data[i].Sector : i \in 1..Len(data)}
           /\ \A i, j \in 1..Len(summary) :
                i # j => summary[i].sector # summary[j].sector
           /\ SumOfCounts(summary, 1) = Len(data)
           /\ \A i \in 1..Len(summary) :
                /\ summary[i].count
                     = Cardinality({k \in 1..Len(data) :
                                      data[k].Sector = summary[i].sector})
                /\ summary[i].count >= 1
                /\ summary[i].total.e <= Places
                /\ Scaled(summary[i].total, Places)
                     = SumOfReturns(data, summary[i].sector, 1)
                /\ summary[i].avg_return.e <= Places
                /\ 2 * Abs(Scaled(summary[i].avg_return, Places) * summary[i].count
                           - Scaled(summary[i].total, Places))
                     <= summary[i].count

\* two records under Tech and one under tech, kept apart
C6_Witness ==
    /\ pc = "aggregated"
    /\ \E i, j \in 1..Len(summary) :
         /\ summary[i].sector = sTech
         /\ summary[i].count = 2
         /\ summary[j].sector = sTechLower
         /\ summary[j].count = 1

IsReportLine(l) ==
    l.msg \in {"All Stock Details", "row", "Top 5 Stocks by Return", "top",
               "Sector Summary", "sector", "Best Sector:"}

\* C7: when the loader yields no record the script prints a diagnostic and
\* exits: nothing but read_csv_safe is ever called, no report line is
\* printed and no file is exported; a report is printed only when at least
\* one record was loaded.
C7_NoDataExitsAtOnce ==
    /\ loaded = <<>>
         => /\ calls \in {<<>>, <<"read_csv_safe">>}
            /\ exported = NoFile
            /\ pc \in {"start", "loaded", "exited", "crashed"}
    /\ pc = "exited"
         => /\ loaded = <<>>
            /\ exc = "none"
            /\ LastLine.msg = "No valid data found. Exiting program."
    /\ (\E i \in 1..Len(out) : IsReportLine(out[i])) => loaded # <<>>

\* a readable source whose rows were all rejected, after the exit
C7_Witness ==
    /\ pc = "exited"
    /\ source.status = "Readable"
    /\ Len(source.rows) >= 2

IsReportNames(ref) == \E t \in Timestamps : ref = ReportName(t)

\* C8: the report is complete before export_csv is called; whatever way the
\* destination fails, export_csv prints a diagnostic naming the destination
\* and the process ends normally, with the report as it was printed.
C8_ExportFailureIsAbsorbed ==
    /\ pc = "reported"
         => /\ LastLine.msg = "Best Sector:"
            /\ ~HasCalled("export_csv")
    /\ HasCalled("export_csv")
         => /\ pc \in {"done", "reloaded"}
            /\ exc = "none"
            /\ calls[Len(calls) - 1] = "print_report"
            /\ LastLine.msg \in {"Data saved to", "Error saving to file:"}
            /\ IsReportNames(LastLine.ref)
            /\ (exported # Written(data)) => LastLine.msg = "Error saving to file:"
            /\ LET rep == print_report(data, summary).out
               IN  /\ Len(out) > Len(rep)
                   /\ SubSeq(out, Len(out) - Len(rep), Len(out) - 1) = rep

\* a finished run whose export failed
C8_Witness ==
    /\ pc = "done"
    /\ LastLine.msg = "Error saving to file:"
    /\ exported = NoFile

Tuple4(s) == <<s.Stock, s.Sector, s.PriceStart, s.PriceEnd>>

Tuples(d) == {Tuple4(d[i]) : i \in 1..Len(d)}

\* C9: loading the file export_csv wrote gives the same set of (name,
\* category, priceStart, priceEnd) tuples, none lost or added, and
\* compute_return on each re-loaded record gives the exported Return.
C9_RoundTrip ==
    (pc = "reloaded" /\ LastLine.msg = "Data saved to")
        => /\ reloaded.status = "return"
           /\ Len(reloaded.stocks) = Len(data)
           /\ Tuples(reloaded.stocks) = Tuples(data)
           /\ \A i \in 1..Len(reloaded.stocks) :
                /\ ParseFloat(exported.rows[i][5]).ok
                /\ compute_return(reloaded.stocks[i]).Return
                     = ParseFloat(exported.rows[i][5]).val

\* a round trip of a record with a fractional price and a stripped name
C9_Witness ==
    /\ pc = "reloaded"
    /\ LastLine.msg = "Data saved to"
    /\ \E i \in 1..Len(data) : data[i].PriceStart.e > 0
    /\ \E i \in 1..Len(data) : data[i].Stock = <<"H", "H">>

BestRef == out[CHOOSE i \in 1..Len(out) : out[i].msg = "Best Sector:"].ref

FirstRecordOf(sector) ==
    CHOOSE k \in 1..Len(data) :
        /\ data[k].Sector = sector
        /\ \A l \in 1..(k - 1) : data[l].Sector # sector

\* C10: the Best Sector printed has an averageReturn no smaller than any
\* other category's; among several at the maximum it is the first in the
\* insertion order of the aggregation, which is the order in which the
\* categories first occur in the ranked sequence; print_report changes
\* neither the records nor the aggregation.
C10_BestSectorIsFirstMaximum ==
    HasCalled("print_report")
        => /\ data = process_all(computed)
           /\ summary = aggregrate_by_sector(data)
           /\ \A i, j \in 1..Len(summary) :
                i < j => FirstRecordOf(summary[i].sector)
                           < FirstRecordOf(summary[j].sector)
           /\ \E b \in 1..Len(summary) :
                /\ BestRef = <<summary[b].sector, summary[b].avg_return>>
                /\ \A j \in 1..Len(summary) :
                     ~DecLess(summary[b].avg_return, summary[j].avg_return)
                /\ \A j \in 1..(b - 1) :
                     DecLess(summary[j].avg_return, summary[b].avg_return)

\* a report over two categories that share the maximum average
C10_Witness ==
    /\ pc = "reported"
    /\ \E i, j \in 1..Len(summary) :
         /\ i < j
         /\ summary[i].avg_return = summary[j].avg_return
         /\ \A k \in 1..Len(summary) :
              ~DecLess(summary[i].avg_return, summary[k].avg_return)
====
